---- MODULE Spec2Model ----
(***************************************************************************)
(* Model of the home expenses splitter: the ExpenseManager ledger           *)
(* (src/main.py), its Person and Expense records (src/person.py,            *)
(* src/expense.py) and the ExpenseApp handlers that mutate the ledger.      *)
(*                                                                          *)
(* Amounts are Python floats.  They are modelled as binary floating-point   *)
(* numbers of reduced width: an amount is an integer count of the smallest  *)
(* representable quantum, and a number is representable when it is          *)
(* m * 2^k with m < 2^Precision.  Every arithmetic result is rounded to the *)
(* nearest representable number, ties to even, as IEEE 754 does.            *)
(***************************************************************************)
EXTENDS Integers, Sequences, FiniteSets, TLC

VARIABLES persons, last, balances, creditors, debtors, settlements, pc

vars == <<persons, last, balances, creditors, debtors, settlements, pc>>
settleVars == <<balances, creditors, debtors, settlements, pc>>

(***************************************************************************)
(* Bounds of the model.                                                    *)
(***************************************************************************)
\* mantissa width of the modelled float (53 for the Python float)
Precision == 2
\* participants in the ledger
MaxPersons == 2
\* expenses held by the whole ledger
MaxExpenses == 1
\* participants and expenses of a ledger given to calculate_totals on its own
MaxDrawnPersons == 2
MaxDrawnExpenses == 2
\* entries of a balance map given to calculate_settlements
MaxParties == 4
\* entries of a zero-sum balance map in the minimality check
MaxZeroSumParties == 5
\* entries of a balance map in the termination check
MaxCallParties == 3

(***************************************************************************)
(* Floating-point arithmetic.                                              *)
(***************************************************************************)
Abs(x) == IF x < 0 THEN -x ELSE x

RECURSIVE Pow2(_)
Pow2(k) == IF k = 0 THEN 1 ELSE 2 * Pow2(k - 1)

\* the spacing of the representable numbers around the rational a/den (a >= 0)
RECURSIVE Ulp(_, _, _)
Ulp(a, den, s) == IF a >= Pow2(Precision) * s * den THEN Ulp(a, den, 2 * s) ELSE s

\* a/den (a >= 0, den > 0) rounded to the nearest representable number,
\* ties to the even mantissa
RoundMagnitude(a, den) ==
    LET s == Ulp(a, den, 1)
        m == a \div (den * s)
        rem == a - m * den * s
        up == \/ 2 * rem > den * s
              \/ 2 * rem = den * s /\ m % 2 = 1
    IN  (IF up THEN m + 1 ELSE m) * s

Round(num, den) ==
    IF num < 0 THEN -RoundMagnitude(-num, den) ELSE RoundMagnitude(num, den)

FAdd(x, y) == Round(x + y, 1)
FSub(x, y) == Round(x - y, 1)
FMul(x, y) == Round(x * y, 1)
FDiv(x, n) == Round(x, n)

\* sum(...) of a sequence of floats, left to right from 0.  (A sum that
\* compensates for rounding agrees with it wherever no addition rounds; the
\* amounts entered below add without rounding.)
RECURSIVE FSum(_)
FSum(s) == IF s = <<>> THEN 0 ELSE FAdd(FSum(SubSeq(s, 1, Len(s) - 1)), s[Len(s)])

\* the exact sum of a sequence of numbers
RECURSIVE SumSeq(_)
SumSeq(s) == IF s = <<>> THEN 0 ELSE s[1] + SumSeq(Tail(s))

(***************************************************************************)
(* Python dicts: a sequence of <<key, value>> pairs in insertion order,    *)
(* keys distinct.                                                          *)
(***************************************************************************)
DictHas(d, k) == \E i \in 1..Len(d) : d[i][1] = k
DictGet(d, k) == d[CHOOSE i \in 1..Len(d) : d[i][1] = k][2]
\* d[k] = v: an existing key keeps its position
DictSet(d, k, v) ==
    IF DictHas(d, k)
    THEN [i \in 1..Len(d) |-> IF d[i][1] = k THEN <<k, v>> ELSE d[i]]
    ELSE Append(d, <<k, v>>)

(***************************************************************************)
(* calculate_settlements, one month (src/main.py 75-94).                   *)
(***************************************************************************)
\* list.sort(key=lambda x: x[1], reverse=True): stable, largest amount first
RECURSIVE InsertDesc(_, _)
InsertDesc(s, x) ==
    IF s = <<>> THEN <<x>>
    ELSE IF s[1][2] >= x[2] THEN <<s[1]>> \o InsertDesc(Tail(s), x)
    ELSE <<x>> \o s

\* the list left in the order the balance map gave
Unsorted(s) == s

RECURSIVE SortDesc(_)
SortDesc(s) ==
    IF s = <<>> THEN <<>>
    ELSE InsertDesc(SortDesc(SubSeq(s, 1, Len(s) - 1)), s[Len(s)])

IsCreditorOrEven(e) == e[2] >= 0
IsCreditor(e) == e[2] > 0
IsDebtor(e) == e[2] < 0
Negated(s) == [i \in 1..Len(s) |-> <<s[i][1], -s[i][2]>>]

\* the creditors in the order of the balance map
CreditorsAsGiven(bal) == SelectSeq(bal, IsCreditor)
Creditors(bal) == SortDesc(SelectSeq(bal, IsCreditor))
Debtors(bal) == SortDesc(Negated(SelectSeq(bal, IsDebtor)))

Min(x, y) == IF x <= y THEN x ELSE y

\* the remainder of a partial match dropped
Dropped(list, name, amount) == list

\* the party put back at the front of its list after a partial match
Reinsert(list, name, amount) == <<<<name, amount>>>> \o list

\* an iteration that reads the two fronts without popping them: the party
\* matched in full stays in its list with nothing left
LoopBodyPeeking(st) ==
    LET creditor == st.creditors[1]
        debtor == st.debtors[1]
        amount == Min(creditor[2], debtor[2])
    IN  [creditors |-> Reinsert(Tail(st.creditors), creditor[1],
                                FSub(creditor[2], amount)),
         debtors |-> Reinsert(Tail(st.debtors), debtor[1],
                              FSub(debtor[2], amount)),
         settlements |-> Append(st.settlements, <<debtor[1], creditor[1], amount>>)]

\* one iteration of `while creditors and debtors`
LoopBody(st) ==
    LET creditor == st.creditors[1]
        debtor == st.debtors[1]
        cs == Tail(st.creditors)
        ds == Tail(st.debtors)
        amount == Min(creditor[2], debtor[2])
    IN  [creditors |-> IF creditor[2] > debtor[2]
                       THEN Reinsert(cs, creditor[1], FSub(creditor[2], amount))
                       ELSE cs,
         debtors |-> IF creditor[2] > debtor[2] THEN ds
                     ELSE IF debtor[2] > creditor[2]
                     THEN Reinsert(ds, debtor[1], FSub(debtor[2], amount))
                     ELSE ds,
         settlements |-> Append(st.settlements, <<debtor[1], creditor[1], amount>>)]

RECURSIVE RunLoop(_)
RunLoop(st) ==
    IF st.creditors # <<>> /\ st.debtors # <<>> THEN RunLoop(LoopBody(st)) ELSE st

SettleStart(bal) ==
    [creditors |-> Creditors(bal), debtors |-> Debtors(bal), settlements |-> <<>>]

\* the settlements, and what is left in the two lists, for one balance map
SettleMonth(bal) == RunLoop(SettleStart(bal))

\* calculate_settlements: month -> settlements
calculate_settlements(balances_by_month) ==
    [i \in 1..Len(balances_by_month) |->
        <<balances_by_month[i][1], SettleMonth(balances_by_month[i][2]).settlements>>]

(***************************************************************************)
(* Person and Expense records (src/person.py, src/expense.py).  The uuid   *)
(* of an expense is read by no operation of the ledger; an expense object  *)
(* is identified by its place <<person index, expense index>>.             *)
(***************************************************************************)
Expense(invoice_id, description, value, expense_date) ==
    [invoice_id |-> invoice_id, description |-> description,
     value |-> value, expense_date |-> expense_date]

Person(name, pays_for_two) ==
    [name |-> name, pays_for_two |-> pays_for_two, expenses |-> <<>>]

\* Person.add_expense
PersonAddExpense(person, expense) ==
    [person EXCEPT !.expenses = Append(@, expense)]

(***************************************************************************)
(* ExpenseManager (src/main.py 19-115).                                    *)
(***************************************************************************)
HasName(ps, name) == \E i \in 1..Len(ps) : ps[i].name = name
\* next((p for p in self.persons if p.name == name), None): the first match
FirstNamed(ps, name) ==
    IF HasName(ps, name)
    THEN CHOOSE i \in 1..Len(ps) :
            ps[i].name = name /\ \A j \in 1..(i - 1) : ps[j].name # name
    ELSE 0

add_person_unchecked(ps, name, pays_for_two) ==
    [persons |-> Append(ps, Person(name, pays_for_two)), err |-> "none"]

add_person(ps, name, pays_for_two) ==
    IF HasName(ps, name)
    THEN [persons |-> ps, err |-> "ValueError"]
    ELSE [persons |-> Append(ps, Person(name, pays_for_two)), err |-> "none"]

add_expense_or_person(ps, person_name, invoice_id, description, value, expense_date) ==
    Append(ps, PersonAddExpense(Person(person_name, FALSE),
                                Expense(invoice_id, description, value, expense_date)))

add_expense(ps, person_name, invoice_id, description, value, expense_date) ==
    LET i == FirstNamed(ps, person_name) IN
    IF i # 0
    THEN [ps EXCEPT ![i] =
            PersonAddExpense(@, Expense(invoice_id, description, value, expense_date))]
    ELSE ps

\* expense_date.strftime("%b %Y").upper()
MonthAbbr ==
    <<"JAN", "FEB", "MAR", "APR", "MAY", "JUN",
      "JUL", "AUG", "SEP", "OCT", "NOV", "DEC">>
DayKey(d) == MonthAbbr[d.month] \o " " \o ToString(d.day) \o " " \o ToString(d.year)
MonthKey(d) == MonthAbbr[d.month] \o " " \o ToString(d.year)

\* the expense objects in iteration order: persons, then each person's expenses
RECURSIVE AllRefs(_, _)
AllRefs(ps, i) ==
    IF i > Len(ps) THEN <<>>
    ELSE [j \in 1..Len(ps[i].expenses) |-> <<i, j>>] \o AllRefs(ps, i + 1)

ExpenseAt(ps, ref) == ps[ref[1]].expenses[ref[2]]

RECURSIVE GroupRefs(_, _, _)
GroupRefs(ps, refs, d) ==
    IF refs = <<>> THEN d
    ELSE LET month == MonthKey(ExpenseAt(ps, refs[1]).expense_date)
             d1 == IF DictHas(d, month) THEN d ELSE DictSet(d, month, <<>>)
         IN  GroupRefs(ps, Tail(refs),
                       DictSet(d1, month, Append(DictGet(d1, month), refs[1])))

get_expenses_by_month(ps) == GroupRefs(ps, AllRefs(ps, 1), <<>>)

Weight(person) == IF person.pays_for_two THEN 2 ELSE 1
ValuesOf(ps, refs) == [k \in 1..Len(refs) |-> ExpenseAt(ps, refs[k]).value]
ExpenseValuesOf(es) == [k \in 1..Len(es) |-> es[k].value]

HeadCount(ps) == Len(ps)
\* sum(2 if person.pays_for_two else 1 for person in self.persons)
NumPersons(ps) == SumSeq([i \in 1..Len(ps) |-> Weight(ps[i])])

\* Person.total_expenses: what the person paid in all months
TotalPaidEver(person, month) == FSum(ExpenseValuesOf(person.expenses))

\* total_paid of one person in one month (line 61)
TotalPaid(person, month) ==
    LET InMonth(e) == MonthKey(e.expense_date) = month
    IN  FSum(ExpenseValuesOf(SelectSeq(person.expenses, InMonth)))

RECURSIVE BalancesFrom(_, _)
BalancesFrom(totals, d) ==
    IF totals = <<>> THEN d
    ELSE BalancesFrom(Tail(totals), DictSet(d, totals[1][1], totals[1][4]))

\* the body of the loop over months (lines 54-65)
MonthTotals(ps, month, expenses) ==
    LET total_expenses == FSum(ValuesOf(ps, expenses))
        num_persons == NumPersons(ps)
        split_amount == FDiv(total_expenses, num_persons)
        totals == [i \in 1..Len(ps) |->
                     LET total_paid == TotalPaid(ps[i], month)
                         should_pay == FMul(split_amount, Weight(ps[i]))
                     IN  <<ps[i].name, total_paid, should_pay,
                           FSub(total_paid, should_pay)>>]
    IN  [total_expenses |-> total_expenses, num_persons |-> num_persons,
         split_amount |-> split_amount, totals |-> totals,
         balances |-> BalancesFrom(totals, <<>>)]

\* lines 52-68 for every month, in the order of expenses_by_month
AllMonthTotals(ps, expenses_by_month) ==
    IF expenses_by_month # <<>> /\ NumPersons(ps) = 0
    THEN [err |-> "ZeroDivisionError", totals_by_month |-> <<>>,
          balances_by_month |-> <<>>]
    ELSE [err |-> "none",
          totals_by_month |->
            [m \in 1..Len(expenses_by_month) |->
                <<expenses_by_month[m][1],
                  MonthTotals(ps, expenses_by_month[m][1],
                              expenses_by_month[m][2]).totals>>],
          balances_by_month |->
            [m \in 1..Len(expenses_by_month) |->
                <<expenses_by_month[m][1],
                  MonthTotals(ps, expenses_by_month[m][1],
                              expenses_by_month[m][2]).balances>>]]

calculate_totals_needing_expenses(ps) ==
    LET expenses_by_month == get_expenses_by_month(ps) IN
    IF ps = <<>> \/ expenses_by_month = <<>>
    THEN [err |-> "ValueError", totals_by_month |-> <<>>, balances_by_month |-> <<>>]
    ELSE AllMonthTotals(ps, expenses_by_month)

calculate_totals(ps) ==
    LET expenses_by_month == get_expenses_by_month(ps) IN
    IF ps = <<>>
    THEN [err |-> "ValueError", totals_by_month |-> <<>>, balances_by_month |-> <<>>]
    ELSE AllMonthTotals(ps, expenses_by_month)

delete_person(ps, name) ==
    LET Kept(person) == person.name # name IN SelectSeq(ps, Kept)

erase_all_data(ps) == <<>>

(***************************************************************************)
(* The ledger as the ExpenseApp handlers drive it (src/main.py 187-515).   *)
(* Entry texts are drawn from small sets; float() and strptime() are the   *)
(* tables FloatOf and DateOf, and a text outside a table is malformed.     *)
(***************************************************************************)
Names == {"A", "B"}
NameTexts == Names \cup {""}
InvoiceIds == {"inv-1"}
Descriptions == {"rent"}
ValueTexts == {"32.0", "abc"}
DateTexts == {"2024-03-01", "2024-03-15", "2024-04-01", "2024-03"}

\* float(value): 1.0 is one quantum times 2^0; the texts are whole amounts
FloatOf == ("32.0" :> 32)
\* datetime.strptime(expense_date, '%Y-%m-%d').date()
DateOf ==
    ("2024-03-01" :> [year |-> 2024, month |-> 3, day |-> 1]) @@
    ("2024-03-15" :> [year |-> 2024, month |-> 3, day |-> 15]) @@
    ("2024-04-01" :> [year |-> 2024, month |-> 4, day |-> 1])

ExpenseCount(ps) == SumSeq([i \in 1..Len(ps) |-> Len(ps[i].expenses)])

\* ExpenseApp.__init__ with no data file: load_data leaves the ledger empty
Init ==
    /\ persons = <<>>
    /\ last = [op |-> "init", err |-> "none"]
    /\ balances = <<>>
    /\ creditors = <<>>
    /\ debtors = <<>>
    /\ settlements = <<>>
    /\ pc = "idle"

\* ExpenseApp.add_person (187-201)
AddPerson(name, pays_for_two) ==
    /\ name = "" \/ HasName(persons, name) \/ Len(persons) < MaxPersons
    /\ IF name # ""
       THEN /\ persons' = add_person(persons, name, pays_for_two).persons
            /\ last' = [op |-> "add_person",
                        err |-> add_person(persons, name, pays_for_two).err]
       ELSE /\ persons' = persons
            /\ last' = [op |-> "add_person", err |-> "empty name"]
    /\ UNCHANGED settleVars

\* ExpenseApp.add_expense (334-350), while the ledger holds fewer than limit
\* expenses
AddExpenseUpTo(limit, person_name, invoice_id, description, value, expense_date) ==
    /\ ~HasName(persons, person_name) \/ ExpenseCount(persons) < limit
    /\ IF value \in DOMAIN FloatOf /\ expense_date \in DOMAIN DateOf
       THEN /\ persons' = add_expense(persons, person_name, invoice_id, description,
                                      FloatOf[value], DateOf[expense_date])
            /\ last' = [op |-> "add_expense", err |-> "none"]
       ELSE /\ persons' = persons
            /\ last' = [op |-> "add_expense", err |-> "ValueError"]
    /\ UNCHANGED settleVars

AddExpense(person_name, invoice_id, description, value, expense_date) ==
    AddExpenseUpTo(MaxExpenses, person_name, invoice_id, description, value,
                   expense_date)

\* ExpenseApp.save_person (252-269): the first person named old_name is renamed
save_person(ps, old_name, new_name, pays_for_two) ==
    LET i == FirstNamed(ps, old_name) IN
    IF i = 0
    THEN [persons |-> ps, err |-> "AttributeError"]
    ELSE [persons |-> [ps EXCEPT ![i].name = new_name,
                                 ![i].pays_for_two = pays_for_two],
          err |-> "none"]

SavePerson(old_name, new_name, pays_for_two) ==
    /\ IF new_name # ""
       THEN /\ persons' = save_person(persons, old_name, new_name, pays_for_two).persons
            /\ last' = [op |-> "save_person",
                        err |-> save_person(persons, old_name, new_name,
                                            pays_for_two).err]
       ELSE /\ persons' = persons
            /\ last' = [op |-> "save_person", err |-> "empty name"]
    /\ UNCHANGED settleVars

\* ExpenseApp.delete_person (271-277)
DeletePerson(person_name) ==
    /\ persons' = delete_person(persons, person_name)
    /\ last' = [op |-> "delete_person", err |-> "none"]
    /\ UNCHANGED settleVars

\* ExpenseApp.erase_all_data (279-284)
EraseAllData ==
    /\ persons' = erase_all_data(persons)
    /\ last' = [op |-> "erase_all_data", err |-> "none"]
    /\ UNCHANGED settleVars

\* ExpenseApp.show_totals_for_month (467-511): the totals and settlements are
\* computed and shown; a ValueError is shown as a message
show_totals(ps) ==
    LET r == calculate_totals(ps) IN
    IF r.err # "none"
    THEN [err |-> r.err, totals_by_month |-> <<>>, settlements_by_month |-> <<>>]
    ELSE [err |-> "none", totals_by_month |-> r.totals_by_month,
          settlements_by_month |-> calculate_settlements(r.balances_by_month)]

ShowTotals ==
    /\ last' = [op |-> "show_totals", err |-> show_totals(persons).err]
    /\ UNCHANGED <<persons, settleVars>>

Next ==
    \/ \E name \in NameTexts, pays_for_two \in BOOLEAN : AddPerson(name, pays_for_two)
    \/ \E person_name \in Names, invoice_id \in InvoiceIds,
          description \in Descriptions, value \in ValueTexts,
          expense_date \in DateTexts :
            AddExpense(person_name, invoice_id, description, value, expense_date)
    \/ \E old_name \in Names, new_name \in NameTexts, pays_for_two \in BOOLEAN :
            SavePerson(old_name, new_name, pays_for_two)
    \/ \E person_name \in Names : DeletePerson(person_name)
    \/ EraseAllData
    \/ ShowTotals

Spec == Init /\ [][Next]_vars

(***************************************************************************)
(* Editing an expense (src/main.py 385-461).  The edit window is bound to  *)
(* one expense object of a participant, here the place <<i, j>>.           *)
(***************************************************************************)
EditInvoiceIds == InvoiceIds \cup {"inv-2"}

\* lines 451-455: the four assignments in order; float() and strptime()
\* raise after the assignments before them are done
save_expense(expense, invoice_id, description, value, expense_date) ==
    LET named == [expense EXCEPT !.invoice_id = invoice_id,
                                 !.description = description]
    IN  IF value \notin DOMAIN FloatOf
        THEN [expense |-> named, err |-> "ValueError"]
        ELSE IF expense_date \notin DOMAIN DateOf
        THEN [expense |-> [named EXCEPT !.value = FloatOf[value]],
              err |-> "ValueError"]
        ELSE [expense |-> [named EXCEPT !.value = FloatOf[value],
                                        !.expense_date = DateOf[expense_date]],
              err |-> "none"]

\* ExpenseApp.save_expense (445-461) on the expense at <<i, j>>
SaveExpense(i, j, invoice_id, description, value, expense_date) ==
    /\ i \in 1..Len(persons)
    /\ j \in 1..Len(persons[i].expenses)
    /\ LET r == save_expense(persons[i].expenses[j], invoice_id, description,
                             value, expense_date)
       IN  /\ persons' = [persons EXCEPT ![i].expenses[j] = r.expense]
           /\ last' = [op |-> "save_expense", err |-> r.err]
    /\ UNCHANGED settleVars

\* participants and expenses added, expenses edited
NextEdit ==
    \/ \E name \in NameTexts, pays_for_two \in BOOLEAN : AddPerson(name, pays_for_two)
    \/ \E person_name \in Names, invoice_id \in InvoiceIds,
          description \in Descriptions, value \in ValueTexts,
          expense_date \in DateTexts :
            AddExpense(person_name, invoice_id, description, value, expense_date)
    \/ \E i \in 1..MaxPersons, j \in 1..MaxExpenses, invoice_id \in EditInvoiceIds,
          description \in Descriptions, value \in ValueTexts,
          expense_date \in DateTexts :
            SaveExpense(i, j, invoice_id, description, value, expense_date)

SpecEdit == Init /\ [][NextEdit]_vars

(***************************************************************************)
(* Balance maps given to calculate_settlements on their own.               *)
(***************************************************************************)
PartyNames == <<"A", "B", "C", "D", "E", "F">>
\* the representable amounts up to 8 quanta at the base precision
BalanceMagnitudes == {1, 2, 3, 4, 6, 8}
BalanceValues == {0} \cup BalanceMagnitudes \cup {-m : m \in BalanceMagnitudes}
\* the amounts of the minimality check
SmallMagnitudes == {1, 2, 3, 4}
SmallValues == {0} \cup SmallMagnitudes \cup {-m : m \in SmallMagnitudes}

BalanceMap(n, f) == [i \in 1..n |-> <<PartyNames[i], f[i]>>]

IdleLedger ==
    /\ persons = <<>>
    /\ last = [op |-> "init", err |-> "none"]

InitSettle ==
    /\ IdleLedger
    /\ \E n \in 1..MaxParties : \E f \in [1..n -> BalanceValues] :
          balances = BalanceMap(n, f)
    /\ creditors = <<>>
    /\ debtors = <<>>
    /\ settlements = <<>>
    /\ pc = "start"

InitZeroSum ==
    /\ IdleLedger
    /\ \E n \in 1..MaxZeroSumParties : \E f \in [1..n -> SmallValues] :
          /\ SumSeq(f) = 0
          /\ balances = BalanceMap(n, f)
    /\ creditors = <<>>
    /\ debtors = <<>>
    /\ settlements = <<>>
    /\ pc = "start"

\* lines 75-80: partition the balances and sort both lists
Partition ==
    /\ pc = "start"
    /\ creditors' = SettleStart(balances).creditors
    /\ debtors' = SettleStart(balances).debtors
    /\ settlements' = <<>>
    /\ pc' = "loop"
    /\ UNCHANGED <<persons, last, balances>>

\* lines 82-92: one iteration of the loop
LoopIter ==
    /\ pc = "loop"
    /\ creditors # <<>> /\ debtors # <<>>
    /\ LET st == LoopBody([creditors |-> creditors, debtors |-> debtors,
                           settlements |-> settlements])
       IN  /\ creditors' = st.creditors
           /\ debtors' = st.debtors
           /\ settlements' = st.settlements
    /\ UNCHANGED <<persons, last, balances, pc>>

\* lines 82, 94: the loop ends when either list is empty
LoopExit ==
    /\ pc = "loop"
    /\ creditors = <<>> \/ debtors = <<>>
    /\ pc' = "done"
    /\ UNCHANGED <<persons, last, balances, creditors, debtors, settlements>>

NextSettle == Partition \/ LoopIter \/ LoopExit

SpecSettle == InitSettle /\ [][NextSettle]_vars
SpecZeroSum == InitZeroSum /\ [][NextSettle]_vars

\* the amounts of the termination check: 8 - 3 and 8 - 1 round at the base
\* precision
CallMagnitudes == {1, 3, 8}
CallValues == {0} \cup CallMagnitudes \cup {-m : m \in CallMagnitudes}

\* the caller fills the balance map of a month, one name at a time
\* (balances[name] = difference)
PutBalance(value) ==
    /\ pc = "idle"
    /\ Len(balances) < MaxCallParties
    /\ balances' = DictSet(balances, PartyNames[Len(balances) + 1], value)
    /\ UNCHANGED <<persons, last, creditors, debtors, settlements, pc>>

\* calculate_settlements called with the balance map
Call ==
    /\ pc = "idle"
    /\ balances # <<>>
    /\ pc' = "start"
    /\ UNCHANGED <<persons, last, balances, creditors, debtors, settlements>>

NextCall ==
    \/ \E value \in CallValues : PutBalance(value)
    \/ Call
    \/ Partition
    \/ LoopIter
    \/ LoopExit

\* the body of calculate_settlements is straight-line code: once called, a
\* step that can be taken is taken
SpecCall == Init /\ [][NextCall]_vars /\ WF_vars(Partition \/ LoopIter \/ LoopExit)

(***************************************************************************)
(* Claims about calculate_settlements.                                     *)
(***************************************************************************)
BalanceOf(bal) == [i \in 1..Len(bal) |-> bal[i][2]]
ZeroSum(bal) == SumSeq(BalanceOf(bal)) = 0

\* what a participant pays (as debtor) and receives (as creditor)
RECURSIVE Paid(_, _)
Paid(name, s) ==
    IF s = <<>> THEN 0
    ELSE (IF s[1][1] = name THEN s[1][3] ELSE 0) + Paid(name, Tail(s))
RECURSIVE Received(_, _)
Received(name, s) ==
    IF s = <<>> THEN 0
    ELSE (IF s[1][2] = name THEN s[1][3] ELSE 0) + Received(name, Tail(s))

\* the balances after every transfer of s is applied
Applied(bal, s) ==
    [i \in 1..Len(bal) |-> bal[i][2] + Paid(bal[i][1], s) - Received(bal[i][1], s)]
AllSettled(bal, s) == \A i \in 1..Len(bal) : Applied(bal, s)[i] = 0

\* every balance is a whole number of quanta small enough that no subtraction
\* of two of them rounds
ExactRange(bal) == \A i \in 1..Len(bal) : Abs(bal[i][2]) <= Pow2(Precision)

\* C1 as stated: for every non-empty zero-sum balance map the transfers
\* returned by calculate_settlements, all applied, leave every balance at
\* exactly zero.
C1_SettlesExactly ==
    (pc = "done" /\ balances # <<>> /\ ZeroSum(balances))
        => AllSettled(balances, settlements)

\* C1 amended: for every non-empty zero-sum balance map on which no float
\* subtraction rounds, the transfers returned, all applied, leave every
\* balance at exactly zero.
C1_SettlesWhenExact ==
    (pc = "done" /\ balances # <<>> /\ ZeroSum(balances) /\ ExactRange(balances))
        => AllSettled(balances, settlements)

C1_Witness ==
    /\ pc = "done" /\ ZeroSum(balances) /\ ExactRange(balances)
    /\ Len(settlements) >= 3
    /\ AllSettled(balances, settlements)

\* C2: every emitted settlement has amount > 0, a debtor different from the
\* creditor, both of them keys of the input balance map, and no participant
\* whose balance is zero appears in a settlement.
C2_SettlementsWellFormed ==
    \A k \in 1..Len(settlements) :
        LET t == settlements[k] IN
        /\ t[3] > 0
        /\ t[1] # t[2]
        /\ DictHas(balances, t[1]) /\ DictHas(balances, t[2])
        /\ DictGet(balances, t[1]) # 0 /\ DictGet(balances, t[2]) # 0

C2_Witness ==
    /\ pc = "done"
    /\ Len(settlements) >= 2
    /\ \E i \in 1..Len(balances) : balances[i][2] = 0

NonZero(b) == {i \in DOMAIN b : b[i] # 0}
\* the largest amount a transfer of a settling list needs
TotalOwed(b) == SumSeq([i \in DOMAIN b |-> IF b[i] > 0 THEN b[i] ELSE 0])

\* some list of at most k positive transfers between participants brings
\* every balance of b to zero (k transfers change at most 2k balances)
RECURSIVE CanSettle(_, _, _)
CanSettle(b, k, maxAmount) ==
    IF k < 0 THEN FALSE
    ELSE IF NonZero(b) = {} THEN TRUE
    ELSE IF k = 0 \/ Cardinality(NonZero(b)) > 2 * k THEN FALSE
    ELSE \E x \in DOMAIN b : \E y \in DOMAIN b \ {x} : \E a \in 1..maxAmount :
            CanSettle([b EXCEPT ![x] = @ + a, ![y] = @ - a], k - 1, maxAmount)

MinimalSize(bal, s) ==
    ~CanSettle(BalanceOf(bal), Len(s) - 1, TotalOwed(BalanceOf(bal)))

\* C3 as stated: for every zero-sum balance map the returned list is
\* minimal-size: no list of positive transfers that settles every balance
\* has fewer entries.
C3_AlwaysMinimal ==
    (pc = "done" /\ ZeroSum(balances)) => MinimalSize(balances, settlements)

\* C3 amended: for every zero-sum balance map with at most four non-zero
\* balances the returned list is minimal-size.
C3_MinimalUpToFour ==
    (pc = "done" /\ ZeroSum(balances)
        /\ Cardinality(NonZero(BalanceOf(balances))) <= 4)
        => MinimalSize(balances, settlements)

C3_Witness ==
    /\ pc = "done" /\ ZeroSum(balances)
    /\ Cardinality(NonZero(BalanceOf(balances))) = 4
    /\ Len(settlements) = 3
    /\ MinimalSize(balances, settlements)

FrontIsLargest(list) == \A i \in 1..Len(list) : list[1][2] >= list[i][2]
LargestFirst(list) == \A i \in 1..(Len(list) - 1) : list[i][2] >= list[i + 1][2]
AtIterationStart == pc = "loop" /\ creditors # <<>> /\ debtors # <<>>

\* C11 as stated: at the start of every iteration of the settlement loop the
\* creditor at the front has the largest remaining amount of all remaining
\* creditors, and the debtor at the front the largest of all remaining
\* debtors.
C11_FrontsLargest ==
    AtIterationStart => FrontIsLargest(creditors) /\ FrontIsLargest(debtors)

\* C11 amended: at the start of every iteration each list is largest-first
\* from its second entry on, at least one of the two lists is largest-first
\* throughout, and in the first iteration both fronts are the largest.
C11_LargestFirstBehindFront ==
    AtIterationStart =>
        /\ LargestFirst(Tail(creditors)) /\ LargestFirst(Tail(debtors))
        /\ LargestFirst(creditors) \/ LargestFirst(debtors)
        /\ settlements = <<>> =>
              FrontIsLargest(creditors) /\ FrontIsLargest(debtors)

\* a reduced creditor is back at the front, ahead of a larger one
C11_Witness ==
    /\ AtIterationStart
    /\ settlements # <<>>
    /\ Len(creditors) >= 2
    /\ ~FrontIsLargest(creditors)
    /\ LargestFirst(Tail(creditors)) /\ LargestFirst(debtors)

(***************************************************************************)
(* Ledgers given to calculate_totals and get_expenses_by_month on their    *)
(* own: every ledger that adding participants, renaming them and adding    *)
(* expenses can build within the bounds.                                   *)
(***************************************************************************)
DrawnNames == {"A", "B"}

\* an entry is <<person index, invoice id, description, value text, date text>>
RECURSIVE WithExpenses(_, _)
WithExpenses(ps, adds) ==
    IF adds = <<>> THEN ps
    ELSE LET a == adds[1] IN
         WithExpenses(
            [ps EXCEPT ![a[1]] =
                PersonAddExpense(@, Expense(a[2], a[3], FloatOf[a[4]], DateOf[a[5]]))],
            Tail(adds))

InitDrawn ==
    /\ \E n \in 0..MaxDrawnPersons :
       \E names \in [1..n -> DrawnNames] : \E flags \in [1..n -> BOOLEAN] :
       \E k \in 0..MaxDrawnExpenses :
       \E adds \in [1..k -> (1..n) \X InvoiceIds \X Descriptions
                                   \X (DOMAIN FloatOf) \X (DOMAIN DateOf)] :
          persons = WithExpenses([i \in 1..n |-> Person(names[i], flags[i])], adds)
    /\ last = [op |-> "init", err |-> "none"]
    /\ balances = <<>>
    /\ creditors = <<>>
    /\ debtors = <<>>
    /\ settlements = <<>>
    /\ pc = "idle"

SpecTotals == InitDrawn /\ [][ShowTotals]_vars

\* expenses added to a drawn ledger
NextMonths ==
    \E person_name \in Names, invoice_id \in InvoiceIds,
       description \in Descriptions, value \in ValueTexts,
       expense_date \in DateTexts :
        AddExpenseUpTo(MaxDrawnExpenses, person_name, invoice_id, description,
                       value, expense_date)

SpecMonths == InitDrawn /\ [][NextMonths]_vars

(***************************************************************************)
(* Claims about the ledger.                                                *)
(***************************************************************************)
\* the exact sum of every expense value of the ledger dated in the month
MonthExpenseSum(ps, month) ==
    LET InMonth(ref) == MonthKey(ExpenseAt(ps, ref).expense_date) = month
    IN  SumSeq(ValuesOf(ps, SelectSeq(AllRefs(ps, 1), InMonth)))

SumShouldPay(totals) == SumSeq([i \in 1..Len(totals) |-> totals[i][3]])
SumDifference(totals) == SumSeq([i \in 1..Len(totals) |-> totals[i][4]])

\* the totals list of a month accounts for every expense of the month
SumsExact(ps, month, totals) ==
    /\ SumShouldPay(totals) = MonthExpenseSum(ps, month)
    /\ SumDifference(totals) = 0

\* no float operation of the month's computation rounds
NoRounding(ps, month, expenses) ==
    LET r == MonthTotals(ps, month, expenses)
        InMonth(e) == MonthKey(e.expense_date) = month
    IN  /\ r.total_expenses = SumSeq(ValuesOf(ps, expenses))
        /\ r.split_amount * r.num_persons = r.total_expenses
        /\ \A i \in 1..Len(ps) :
              /\ r.totals[i][2]
                    = SumSeq(ExpenseValuesOf(SelectSeq(ps[i].expenses, InMonth)))
              /\ r.totals[i][3] = r.split_amount * Weight(ps[i])
              /\ r.totals[i][4] = r.totals[i][2] - r.totals[i][3]

\* C4 as stated: with at least one participant, for every month of
\* calculate_totals the should_pay entries sum to the month's expenses and
\* the difference entries sum to zero.
C4_SumInvariant ==
    LET t == calculate_totals(persons).totals_by_month IN
    persons # <<>> =>
        \A m \in 1..Len(t) : SumsExact(persons, t[m][1], t[m][2])

\* C4 amended: the same, for every month in whose computation no float
\* operation (the sums, total / weight, paid - should_pay) rounds.
C4_SumInvariantWhenExact ==
    LET t == calculate_totals(persons).totals_by_month
        g == get_expenses_by_month(persons)
    IN  persons # <<>> =>
        \A m \in 1..Len(t) :
            NoRounding(persons, g[m][1], g[m][2])
                => SumsExact(persons, t[m][1], t[m][2])

C4_Witness ==
    LET t == calculate_totals(persons).totals_by_month
        g == get_expenses_by_month(persons)
    IN  /\ last.op = "show_totals"
        /\ Len(persons) >= 2
        /\ \E i \in 1..Len(persons) : persons[i].pays_for_two
        /\ \E m \in 1..Len(t) :
              /\ NoRounding(persons, g[m][1], g[m][2])
              /\ SumShouldPay(t[m][2]) > 0
              /\ SumsExact(persons, t[m][1], t[m][2])

\* C5: the names of the participants are pairwise distinct.
C5_NamesDistinct ==
    \A i \in 1..Len(persons) : \A j \in 1..Len(persons) :
        i # j => persons[i].name # persons[j].name

\* C6: add_person with the name of an existing participant fails with the
\* duplicate-name error and leaves the collection unchanged; with a new name
\* it appends one participant with that name, the given flag and no expense.
C6_AddPersonContract ==
    [][\A name \in Names : \A pays_for_two \in BOOLEAN :
        AddPerson(name, pays_for_two) =>
            IF HasName(persons, name)
            THEN persons' = persons /\ last'.err = "ValueError"
            ELSE /\ persons' = Append(persons,
                        [name |-> name, pays_for_two |-> pays_for_two,
                         expenses |-> <<>>])
                 /\ last'.err = "none"]_vars

C6_Witness ==
    /\ last = [op |-> "add_person", err |-> "ValueError"]
    /\ Len(persons) >= 1

\* C7: calculate_totals fails with the empty-ledger error exactly when the
\* participant collection is empty, and returns without error otherwise.
C7_EmptyLedgerError ==
    LET err == calculate_totals(persons).err IN
    /\ err = "ValueError" <=> persons = <<>>
    /\ persons # <<>> => err = "none"
    /\ last.op = "show_totals" =>
          last.err = (IF persons = <<>> THEN "ValueError" ELSE "none")

C7_Witness ==
    /\ last = [op |-> "show_totals", err |-> "ValueError"]
    /\ persons = <<>>

\* C8: add_expense with a name that matches no participant raises no error
\* and leaves the whole ledger unchanged.
C8_AddExpenseUnknownName ==
    [][\A person_name \in Names : \A invoice_id \in InvoiceIds :
       \A description \in Descriptions : \A value \in DOMAIN FloatOf :
       \A expense_date \in DOMAIN DateOf :
        (/\ ~HasName(persons, person_name)
         /\ AddExpense(person_name, invoice_id, description, value, expense_date))
            => persons' = persons /\ last'.err = "none"]_vars

C8_Witness ==
    /\ last = [op |-> "add_expense", err |-> "none"]
    /\ persons # <<>>
    /\ ExpenseCount(persons) = 0

\* C9: get_expenses_by_month partitions the expenses by month and year:
\* every expense is in exactly one bucket, the one keyed by its month and
\* year; two expenses share a bucket exactly when month and year agree; no
\* bucket is empty; a bucket lists its expenses in participant order, then
\* insertion order.
BucketPlaces(g) ==
    {<<b, k>> \in (1..Len(g)) \X (1..ExpenseCount(persons)) : k <= Len(g[b][2])}
RefBefore(r1, r2) == r1[1] < r2[1] \/ (r1[1] = r2[1] /\ r1[2] < r2[2])
SameMonthAndYear(d1, d2) == d1.month = d2.month /\ d1.year = d2.year

C9_MonthPartition ==
    LET g == get_expenses_by_month(persons)
        refs == {<<i, j>> \in (1..Len(persons)) \X (1..ExpenseCount(persons)) :
                    j <= Len(persons[i].expenses)}
        PlaceOf(ref) == {p \in BucketPlaces(g) : g[p[1]][2][p[2]] = ref}
    IN  /\ \A b1 \in 1..Len(g) : \A b2 \in 1..Len(g) : g[b1][1] = g[b2][1] => b1 = b2
        /\ \A b \in 1..Len(g) : g[b][2] # <<>>
        /\ \A p \in BucketPlaces(g) : g[p[1]][2][p[2]] \in refs
        /\ \A ref \in refs :
              /\ Cardinality(PlaceOf(ref)) = 1
              /\ \A p \in PlaceOf(ref) :
                    LET d == ExpenseAt(persons, ref).expense_date
                    IN  g[p[1]][1] = MonthAbbr[d.month] \o " " \o ToString(d.year)
        /\ \A r1 \in refs : \A r2 \in refs :
              (\E p1 \in PlaceOf(r1) : \E p2 \in PlaceOf(r2) : p1[1] = p2[1])
                <=> SameMonthAndYear(ExpenseAt(persons, r1).expense_date,
                                     ExpenseAt(persons, r2).expense_date)
        /\ \A b \in 1..Len(g) : \A k \in 1..(Len(g[b][2]) - 1) :
              RefBefore(g[b][2][k], g[b][2][k + 1])

C9_Witness ==
    LET g == get_expenses_by_month(persons)
    IN  \E b \in 1..Len(g) :
            /\ last.op = "show_totals"
            /\ Len(g[b][2]) = 2
            /\ g[b][2][1][1] # g[b][2][2][1]
            /\ ExpenseAt(persons, g[b][2][1]).expense_date
                  # ExpenseAt(persons, g[b][2][2]).expense_date

\* C10: with at least one participant, the balance map of every month has
\* one entry per participant and sums to zero, and calculate_settlements on
\* it ends with the creditor list and the debtor list both empty.  Stated
\* for the months in whose computation no float operation rounds, where a
\* non-zero sum cannot come from rounding (C4).
C10_BalancesSettle ==
    LET b == calculate_totals(persons).balances_by_month
        g == get_expenses_by_month(persons)
    IN  persons # <<>> =>
        \A m \in 1..Len(b) :
            NoRounding(persons, g[m][1], g[m][2]) =>
                LET left == SettleMonth(b[m][2]) IN
                /\ Len(b[m][2]) = Len(persons)
                /\ ZeroSum(b[m][2])
                /\ left.creditors = <<>>
                /\ left.debtors = <<>>

\* the entries of a month-keyed dict for the months other than month
OtherMonths(d, month) == LET Other(e) == e[1] # month IN SelectSeq(d, Other)

\* what calculate_totals and calculate_settlements give for the months other
\* than month: the totals lists, the balance maps and the settlement lists
ResultsOutside(ps, month) ==
    LET r == calculate_totals(ps) IN
    <<OtherMonths(r.totals_by_month, month),
      OtherMonths(r.balances_by_month, month),
      OtherMonths(calculate_settlements(r.balances_by_month), month)>>

\* the step adds one expense to participant i and changes nothing else
ExpenseAdded(i) ==
    /\ i <= Len(persons')
    /\ persons'[i].expenses # <<>>
    /\ persons' = [persons EXCEPT ![i] =
            PersonAddExpense(@, persons'[i].expenses[Len(persons'[i].expenses)])]
NewExpense(i) == persons'[i].expenses[Len(persons'[i].expenses)]

\* C12: adding an expense dated in month M leaves the totals list, the
\* balance map and the settlement list of every other month as they were.
C12_MonthsIndependent ==
    [][\A i \in 1..Len(persons) :
        ExpenseAdded(i)
            => ResultsOutside(persons', MonthKey(NewExpense(i).expense_date))
                 = ResultsOutside(persons, MonthKey(NewExpense(i).expense_date))]_vars

\* an expense has been added for a participant who has an expense in another
\* month, in a ledger of two participants or more
C12_Witness ==
    /\ last = [op |-> "add_expense", err |-> "none"]
    /\ Len(persons) >= 2
    /\ \E i \in 1..Len(persons) :
          /\ Len(persons[i].expenses) = 2
          /\ MonthKey(persons[i].expenses[1].expense_date)
                # MonthKey(persons[i].expenses[2].expense_date)
          /\ ResultsOutside(persons,
                MonthKey(persons[i].expenses[2].expense_date))[3] # <<>>

(***************************************************************************)
(* Termination of the settlement loop.                                     *)
(***************************************************************************)
PartyNamesIn(list) == {list[i][1] : i \in 1..Len(list)}

\* the most transfers a month with c creditors and d debtors may emit
TransferBound(c, d) == IF c = 0 \/ d = 0 THEN 0 ELSE c + d - 1

\* the transfers emitted so far, and those the parties still listed allow,
\* stay within the bound
WithinTransferBound ==
    pc \in {"loop", "done"} =>
        LET c == Len(Creditors(balances))
            d == Len(Debtors(balances))
        IN  /\ Len(settlements) + TransferBound(Len(creditors), Len(debtors))
                  <= TransferBound(c, d)
            /\ (c = 0 \/ d = 0) => settlements = <<>>

\* an iteration takes at least one party out of the two lists and brings
\* none back
RemovesAParty ==
    /\ Len(creditors') + Len(debtors') < Len(creditors) + Len(debtors)
    /\ PartyNamesIn(creditors') \subseteq PartyNamesIn(creditors)
    /\ PartyNamesIn(debtors') \subseteq PartyNamesIn(debtors)
    /\ Len(settlements') = Len(settlements) + 1

\* C13: for every balance map the settlement loop terminates: each
\* iteration removes at least one party from the creditor list or the debtor
\* list for good, and the number of transfers emitted for c creditors and d
\* debtors is at most c + d - 1, and 0 when either is 0.
C13_LoopTerminates ==
    /\ pc = "start" ~> pc = "done"
    /\ [][LoopIter => RemovesAParty]_vars
    /\ []WithinTransferBound

\* the loop has ended after the most transfers its creditors and debtors
\* allow, a remainder having been put back
C13_Witness ==
    /\ pc = "done"
    /\ Len(Creditors(balances)) + Len(Debtors(balances)) = 3
    /\ Len(settlements) = 2

(***************************************************************************)
(* Claims about editing an expense.                                        *)
(***************************************************************************)
\* C14: a save_expense that is rejected because the value or the date is
\* malformed leaves the expense, and so the whole ledger, as it was before
\* the edit (the ledger last written to the data file).
C14_RejectedEditKeepsExpense ==
    [][\A i \in 1..MaxPersons : \A j \in 1..MaxExpenses :
       \A invoice_id \in EditInvoiceIds : \A description \in Descriptions :
       \A value \in ValueTexts : \A expense_date \in DateTexts :
        (/\ SaveExpense(i, j, invoice_id, description, value, expense_date)
         /\ last'.err = "ValueError")
            => persons' = persons]_vars

====
